---- MODULE Spec2Model ----
(***************************************************************************)
(* Model of src/src/Graph.js: a React component that builds a random graph *)
(* (nodes, links), hands it to a d3 force simulation, draws it on a PIXI   *)
(* stage on every tick, and lets the user drag nodes with the pointer.     *)
(*                                                                         *)
(* Numbers are scaled: coordinates are the points 0..Width x 0..Height,    *)
(* alpha is fixed point with AlphaOne standing for 1.0 and AlphaMin for    *)
(* d3's alphaMin, opacity is in tenths.  The many-body and link forces of  *)
(* d3 are floating point; the model lets them produce any velocity of      *)
(* VelRange that keeps the node on the grid.  The centering force, the     *)
(* integration with the fx/fy clamp and the alpha decay follow d3's tick.  *)
(***************************************************************************)
EXTENDS Integers, Sequences, FiniteSets, TLC

\* ---- bounds of the model ------------------------------------------------
NumNodes == 2      \* Array.from({ length: 20 }) in the source
NumLinks == 2      \* Array.from({ length: 30 }) in the source
Width == 1         \* the width prop (800 in App)
Height == 0        \* the height prop (600 in App)
MaxVel == 1        \* largest velocity component the forces produce
AlphaOne == 4      \* fixed-point representation of alpha = 1
MaxSubs == 2       \* cap on the registrations of onDragMove on the stage
MaxLoads == 2      \* cap on the invocations of initializePixi in flight

\* ---- constants of the program and of the libraries it configures --------
null == -1
AlphaMin == 1
AlphaDecayDen == 2
DragOpacity == 5
FullOpacity == 10

Nodes == 0 .. (NumNodes - 1)
XCoord == 0 .. Width
YCoord == 0 .. Height
Points == XCoord \X YCoord
VelRange == (0 - MaxVel) .. MaxVel
UpEvents == {"pointerup", "pointerupoutside"}
StageEvents == {"pointermove"} \cup UpEvents

VARIABLES
    listening,    \* the "load" listener of the effect is registered on window
    mounted,      \* pixiContainer.current is the div (the view is in the page)
    pc,           \* progress of initializePixi: "idle", "awaitInit", "ready", "failed"
    awaiting,     \* invocations of initializePixi suspended at await app.init
    sims,         \* canvases appended and simulations created so far
    x, y,         \* node.x, node.y
    vx, vy,       \* node.vx, node.vy
    fx, fy,       \* node.fx, node.fy (null when not pinned)
    linkCount,    \* node.linkCount
    links,        \* the filtered links array, <<source, target>> each
    alpha,        \* simulation.alpha()
    alphaTarget,  \* simulation.alphaTarget()
    running,      \* the simulation's timer is scheduled
    dragTarget,   \* the node of the closure variable dragTarget, or null
    opacity,      \* circle.alpha of every node's circle
    stageOn,      \* number of listeners of app.stage per event
    circleOn,     \* number of "pointerdown" listeners per circle
    lines,        \* segments drawn on the link graphics by the last draw
    circles,      \* circle drawn for every node by the last draw
    order,        \* kinds of the primitives of the last draw, in call order
    renders,      \* calls of updatePositions made by the last tick
    last          \* the last event handled: [ev, hit, was]

lifeVars == <<listening, mounted, pc, awaiting, sims>>
nodeVars == <<x, y, vx, vy, fx, fy, linkCount, links>>
simVars == <<alpha, alphaTarget, running>>
ctlVars == <<dragTarget, opacity, stageOn, circleOn>>
drawVars == <<lines, circles, order, renders>>
vars == <<lifeVars, nodeVars, simVars, ctlVars, drawVars, last>>

Event(ev, hit, was) == [ev |-> ev, hit |-> hit, was |-> was]

\* ---- graph construction (Graph.js 40-58) --------------------------------

\* One callback of Array.from({ length: 30 }, ...): the pair drawn.
Draws == [1 .. NumLinks -> Nodes \X Nodes]

\* The filter keeping every drawn link.
KeepEveryLink(l) == TRUE

\* .filter(l => l.source !== l.target)
KeepLink(l) == l[1] # l[2]

FilterLinks(draws) == SelectSeq(draws, KeepLink)

\* The increments without the source !== target test.
CountsEveryLink(l) == TRUE

\* source.linkCount++; target.linkCount++ under if (source !== target)
CountsLink(l) == l[1] # l[2]

RECURSIVE LinkCounts(_, _)
LinkCounts(draws, n) ==
    IF draws = <<>> THEN 0
    ELSE LET l == Head(draws)
             inc == IF CountsLink(l)
                    THEN (IF l[1] = n THEN 1 ELSE 0) + (IF l[2] = n THEN 1 ELSE 0)
                    ELSE 0
         IN inc + LinkCounts(Tail(draws), n)

\* ---- rendering (Graph.js 137-167) ---------------------------------------

\* drawNode: const radius = 4 + linkCount*2
Radius(count) == 4 + count * 2

\* A line whose lineTo repeats the source's position.
DrawLinesFromSource(ls, px, py) ==
    [i \in 1 .. Len(ls) |-> <<px[ls[i][1]], py[ls[i][1]], px[ls[i][1]], py[ls[i][1]]>>]

\* moveTo(link.source.x, link.source.y); lineTo(link.target.x, link.target.y)
DrawLines(ls, px, py) ==
    [i \in 1 .. Len(ls) |-> <<px[ls[i][1]], py[ls[i][1]], px[ls[i][2]], py[ls[i][2]]>>]

DrawCircles(px, py, counts) ==
    [n \in DOMAIN px |-> <<px[n], py[n], Radius(counts[n])>>]

\* links.forEach(... moveTo, lineTo): one line call per link
LineCalls(ls) == [i \in 1 .. Len(ls) |-> "line"]

\* nodes.forEach(... drawNode): one circle call per node
CircleCalls(ns) == [i \in 1 .. Cardinality(ns) |-> "circle"]

\* A draw that visits the nodes before the links.
DrawOrderNodesFirst(lineCalls, circleCalls) == circleCalls \o lineCalls

\* "Draw links first so nodes appear on top": the links loop precedes the
\* nodes loop, in the initial draw (73-98) and in updatePositions (141-158).
DrawOrder(lineCalls, circleCalls) == lineCalls \o circleCalls

\* A redraw that also writes the drawn position back as the node's pin.
UpdatePositionsSnaps(s) ==
    [s EXCEPT !.lines = DrawLines(s.links, s.x, s.y),
              !.circles = DrawCircles(s.x, s.y, s.linkCount),
              !.order = DrawOrder(LineCalls(s.links), CircleCalls(DOMAIN s.x)),
              !.renders = @ + 1,
              !.fx = s.x, !.fy = s.y]

\* updatePositions, on the record s of the fields it can reach.
UpdatePositions(s) ==
    [s EXCEPT !.lines = DrawLines(s.links, s.x, s.y),
              !.circles = DrawCircles(s.x, s.y, s.linkCount),
              !.order = DrawOrder(LineCalls(s.links), CircleCalls(DOMAIN s.x)),
              !.renders = @ + 1]

\* A simulation on which no "tick" listener was registered.
NotifyNobody(s) == s

\* event.call("tick"): the one listener registered by .on("tick", ...)
Notify(s) == UpdatePositions(s)

\* ---- the d3 simulation (configured at Graph.js 63-67) -------------------

\* The decay with its sign reversed.
AlphaStepReversed(a, t) == a - ((t - a) \div AlphaDecayDen)

\* tick: alpha += (alphaTarget - alpha) * alphaDecay
AlphaStep(a, t) == a + ((t - a) \div AlphaDecayDen)

RECURSIVE SumOver(_, _)
SumOver(f, S) ==
    IF S = {} THEN 0
    ELSE LET n == CHOOSE m \in S : TRUE IN f[n] + SumOver(f, S \ {n})

\* forceCenter(cx, cy): every node is shifted by the centroid's offset.
Center(p, c) ==
    LET s == (SumOver(p, DOMAIN p) \div Cardinality(DOMAIN p)) - c
    IN [n \in DOMAIN p |-> p[n] - s]

\* An integration that never adds the velocity.
IntegrateSticks(pos, vel, pin) == IF pin = null THEN pos ELSE pin

\* The integration without the fx/fy branch.
IntegrateIgnoresPin(pos, vel, pin) == pos + vel

\* tick: if (node.fx == null) node.x += node.vx *= velocityDecay;
\*       else node.x = node.fx, node.vx = 0;
Integrate(pos, vel, pin) == IF pin = null THEN pos + vel ELSE pin

Velocity(vel, pin) == IF pin = null THEN vel ELSE 0

\* A timer that is never stopped.
KeepsRunningAlways(a) == TRUE

\* step: if (alpha < alphaMin) stepper.stop()
KeepsRunning(a) == ~(a < AlphaMin)

\* ---- life cycle (Graph.js 13-30, 177-187) -------------------------------

Init ==
    /\ listening = TRUE
    /\ mounted = TRUE
    /\ pc = "idle"
    /\ awaiting = 0 /\ sims = 0
    /\ x = <<>> /\ y = <<>> /\ vx = <<>> /\ vy = <<>> /\ fx = <<>> /\ fy = <<>>
    /\ linkCount = <<>>
    /\ links = <<>>
    /\ alpha = null /\ alphaTarget = null /\ running = FALSE
    /\ dragTarget = null
    /\ opacity = <<>>
    /\ stageOn = [e \in StageEvents |-> 0]
    /\ circleOn = <<>>
    /\ lines = <<>> /\ circles = <<>> /\ order = <<>> /\ renders = 0
    /\ last = Event("mount", null, null)

\* The guard of initializePixi on the application ref: appRef.current is
\* assigned after the await, so it is set once an invocation has got through.
AppRefSet == pc = "ready"

\* The catch of initializePixi: the error is written to the console and the
\* function returns normally, so the promise of the invocation is fulfilled
\* ("failed"); it is never rejected ("rejected").
Catch(err) == "failed"

\* pc once an invocation has ended in the catch.
AfterFailure(left) ==
    IF pc = "ready" THEN "ready"
    ELSE IF left > 0 THEN "awaitInit" ELSE Catch("error")

\* window "load": initializePixi runs up to await app.init(...). The listener
\* is registered without { once: true }, so every dispatch of "load" on window
\* invokes it again.
Load ==
    /\ listening
    /\ mounted                      \* if (!pixiContainer.current) return
    /\ ~AppRefSet                   \* if (appRef.current) return
    /\ awaiting < MaxLoads
    /\ awaiting' = awaiting + 1
    /\ pc' = "awaitInit"
    /\ last' = Event("load", null, null)
    /\ UNCHANGED <<listening, mounted, sims, nodeVars, simVars, ctlVars,
                   drawVars>>

\* app.init rejects, or app.view is missing: the catch logs the error.
InitReject ==
    /\ awaiting > 0
    /\ awaiting' = awaiting - 1
    /\ pc' = AfterFailure(awaiting')
    /\ last' = Event("initfail", null, null)
    /\ UNCHANGED <<listening, mounted, sims, nodeVars, simVars, ctlVars,
                   drawVars>>

\* app.init resolves: the rest of initializePixi runs to its return. The refs
\* are overwritten, so the graph of the model is the one of the invocation
\* that got through last; a simulation an earlier invocation created stays
\* scheduled on its own node objects and is counted in sims.
InitResolve ==
    /\ awaiting > 0
    /\ awaiting' = awaiting - 1
    /\ IF ~mounted
       THEN \* pixiContainer.current is null: appendChild throws into the catch
            /\ pc' = AfterFailure(awaiting')
            /\ last' = Event("initfail", null, null)
            /\ UNCHANGED <<sims, nodeVars, simVars, ctlVars, drawVars>>
       ELSE \E px \in [Nodes -> XCoord], py \in [Nodes -> YCoord],
               draws \in Draws :
            /\ pc' = "ready"
            /\ sims' = sims + 1
            /\ x' = px /\ y' = py
            /\ vx' = [n \in Nodes |-> 0] /\ vy' = [n \in Nodes |-> 0]
            /\ fx' = [n \in Nodes |-> null] /\ fy' = [n \in Nodes |-> null]
            /\ linkCount' = [n \in Nodes |-> LinkCounts(draws, n)]
            /\ links' = FilterLinks(draws)
            /\ alpha' = AlphaOne /\ alphaTarget' = 0 /\ running' = TRUE
            /\ dragTarget' = null
            /\ opacity' = [n \in Nodes |-> FullOpacity]
            /\ circleOn' = [n \in Nodes |-> 1]
            /\ stageOn' = [e \in StageEvents |-> IF e \in UpEvents THEN 1 ELSE 0]
            /\ lines' = DrawLines(links', px, py)
            /\ circles' = DrawCircles(px, py, linkCount')
            /\ order' = DrawOrder(LineCalls(links'), CircleCalls(Nodes))
            /\ renders' = 0
            /\ last' = Event("init", null, null)
    /\ UNCHANGED <<listening, mounted>>

\* The effect's cleanup: window.removeEventListener("load", initializePixi).
\* The function initializePixi returns (169-176) is the listener's return
\* value, which nothing calls.
Unmount ==
    /\ mounted
    /\ mounted' = FALSE
    /\ listening' = FALSE
    /\ last' = Event("unmount", null, dragTarget)
    /\ UNCHANGED <<pc, awaiting, sims, nodeVars, simVars, ctlVars, drawVars>>

\* ---- the drag handlers (Graph.js 103-135) -------------------------------

\* app.stage.on("pointermove", onDragMove)
Subscribe(on, e) == [on EXCEPT ![e] = @ + 1]

\* app.stage.off("pointermove", onDragMove): every registration of fn goes
Unsubscribe(on, e) == [on EXCEPT ![e] = 0]

\* onDragStart's choice of the drag target: dragTarget = this
StartTarget(cur, n) == n

onDragStart(n, p) ==
    /\ opacity' = [opacity EXCEPT ![n] = DragOpacity]
    /\ dragTarget' = StartTarget(dragTarget, n)
    /\ fx' = [fx EXCEPT ![dragTarget'] = p[1]]
    /\ fy' = [fy EXCEPT ![dragTarget'] = p[2]]
    /\ stageOn' = Subscribe(stageOn, "pointermove")
    /\ UNCHANGED <<x, y, vx, vy, linkCount, links, simVars, circleOn, drawVars>>

\* simulation.alpha(1).restart()
Reheat(a) == AlphaOne

\* A move handler that reheats but leaves the pin where it was.
onDragMoveStale(p) ==
    IF dragTarget # null
    THEN /\ alpha' = Reheat(alpha)
         /\ running' = TRUE
         /\ UNCHANGED <<nodeVars, alphaTarget, ctlVars, drawVars>>
    ELSE UNCHANGED <<nodeVars, simVars, ctlVars, drawVars>>

onDragMove(p) ==
    IF dragTarget # null
    THEN /\ fx' = [fx EXCEPT ![dragTarget] = p[1]]
         /\ fy' = [fy EXCEPT ![dragTarget] = p[2]]
         /\ alpha' = Reheat(alpha)
         /\ running' = TRUE
         /\ UNCHANGED <<x, y, vx, vy, linkCount, links, alphaTarget, ctlVars, drawVars>>
    ELSE UNCHANGED <<nodeVars, simVars, ctlVars, drawVars>>

\* A drag end that leaves the pin in place.
UnpinForgets(pin, n) == pin

\* dragTarget.node.fx = null; dragTarget.node.fy = null
Unpin(pin, n) == [pin EXCEPT ![n] = null]

\* A drag end that restarts the timer outside the dragTarget test.
onDragEndRestarts ==
    IF dragTarget # null
    THEN /\ stageOn' = Unsubscribe(stageOn, "pointermove")
         /\ opacity' = [opacity EXCEPT ![dragTarget] = FullOpacity]
         /\ fx' = Unpin(fx, dragTarget)
         /\ fy' = Unpin(fy, dragTarget)
         /\ dragTarget' = null
         /\ alphaTarget' = 0
         /\ UNCHANGED <<x, y, vx, vy, linkCount, links, alpha, running, circleOn, drawVars>>
    ELSE /\ running' = TRUE
         /\ UNCHANGED <<nodeVars, alpha, alphaTarget, ctlVars, drawVars>>

onDragEnd ==
    IF dragTarget # null
    THEN /\ stageOn' = Unsubscribe(stageOn, "pointermove")
         /\ opacity' = [opacity EXCEPT ![dragTarget] = FullOpacity]
         /\ fx' = Unpin(fx, dragTarget)
         /\ fy' = Unpin(fy, dragTarget)
         /\ dragTarget' = null
         /\ alphaTarget' = 0
         /\ UNCHANGED <<x, y, vx, vy, linkCount, links, alpha, running, circleOn, drawVars>>
    ELSE UNCHANGED <<nodeVars, simVars, ctlVars, drawVars>>

\* "pointerdown" on the circle of node n at global position p.  Which circle
\* is hit is the stage's hit test; the model allows any node and any point.
\* MaxSubs caps the listener count, which the code lets grow without bound.
PointerDown(n, p) ==
    /\ pc = "ready"
    /\ circleOn[n] > 0
    /\ stageOn["pointermove"] < MaxSubs
    /\ onDragStart(n, p)
    /\ last' = Event("pointerdown", n, dragTarget)
    /\ UNCHANGED lifeVars

\* "pointermove" on the stage at global position p.  Every registration of
\* onDragMove is called with the same event; the calls after the first
\* assign the same values again.
PointerMove(p) ==
    /\ pc = "ready"
    /\ IF stageOn["pointermove"] > 0
       THEN onDragMove(p)
       ELSE UNCHANGED <<nodeVars, simVars, ctlVars, drawVars>>
    /\ last' = Event("pointermove", null, dragTarget)
    /\ UNCHANGED lifeVars

\* "pointerup" or "pointerupoutside" on the stage
PointerUp(e) ==
    /\ pc = "ready"
    /\ IF stageOn[e] > 0
       THEN onDragEnd
       ELSE UNCHANGED <<nodeVars, simVars, ctlVars, drawVars>>
    /\ last' = Event(e, null, dragTarget)
    /\ UNCHANGED lifeVars

\* ---- one step of the simulation's timer: tick, then updatePositions -----

\* The many-body and link forces followed by the velocity decay leave on
\* every free node a velocity of VelRange; the model follows the runs in
\* which that velocity lands the node on a point (nx, ny) of the surface.
Tick ==
    /\ pc = "ready"
    /\ running
    /\ last' = Event("tick", null, dragTarget)
    /\ UNCHANGED <<lifeVars, opacity, stageOn, circleOn>>
    /\ \E nx \in [Nodes -> XCoord], ny \in [Nodes -> YCoord] :
       \E cx \in {Center(x, Width \div 2)}, cy \in {Center(y, Height \div 2)} :
       \E fvx \in {[n \in Nodes |-> nx[n] - cx[n]]},
          fvy \in {[n \in Nodes |-> ny[n] - cy[n]]} :
         /\ \A n \in Nodes : fx[n] = null => fvx[n] \in VelRange
         /\ \A n \in Nodes : fy[n] = null => fvy[n] \in VelRange
         \* t: the fields after simulation.tick()
         /\ \E t \in {[x |-> [n \in Nodes |-> Integrate(cx[n], fvx[n], fx[n])],
                       y |-> [n \in Nodes |-> Integrate(cy[n], fvy[n], fy[n])],
                       vx |-> [n \in Nodes |-> Velocity(fvx[n], fx[n])],
                       vy |-> [n \in Nodes |-> Velocity(fvy[n], fy[n])],
                       fx |-> fx, fy |-> fy,
                       linkCount |-> linkCount, links |-> links,
                       alpha |-> AlphaStep(alpha, alphaTarget),
                       alphaTarget |-> alphaTarget,
                       dragTarget |-> dragTarget,
                       lines |-> lines, circles |-> circles, order |-> order,
                       renders |-> 0]} :
            \* r: the fields after the "tick" listener has returned
            \E r \in {Notify(t)} :
              /\ x' = r.x /\ y' = r.y /\ vx' = r.vx /\ vy' = r.vy
              /\ fx' = r.fx /\ fy' = r.fy
              /\ linkCount' = r.linkCount /\ links' = r.links
              /\ alpha' = r.alpha /\ alphaTarget' = r.alphaTarget
              /\ dragTarget' = r.dragTarget
              /\ lines' = r.lines /\ circles' = r.circles
              /\ order' = r.order /\ renders' = r.renders
    /\ running' = KeepsRunning(alpha')

Next ==
    \/ Load
    \/ InitReject
    \/ InitResolve
    \/ Unmount
    \/ \E n \in Nodes, p \in Points : PointerDown(n, p)
    \/ \E p \in Points : PointerMove(p)
    \/ \E e \in UpEvents : PointerUp(e)
    \/ Tick

Spec == Init /\ [][Next]_vars

TypeOK ==
    /\ listening \in BOOLEAN /\ mounted \in BOOLEAN
    /\ pc \in {"idle", "awaitInit", "ready", "failed"}
    /\ awaiting \in 0 .. MaxLoads /\ sims \in 0 .. MaxLoads
    /\ running \in BOOLEAN
    /\ dragTarget \in Nodes \cup {null}
    /\ pc = "ready" =>
         /\ x \in [Nodes -> XCoord] /\ y \in [Nodes -> YCoord]
         /\ vx \in [Nodes -> VelRange] /\ vy \in [Nodes -> VelRange]
         /\ fx \in [Nodes -> XCoord \cup {null}] /\ fy \in [Nodes -> YCoord \cup {null}]
         /\ alpha \in 0 .. AlphaOne

\* The timer of the simulation fires while it is scheduled.
SpecLive == Init /\ [][Next]_vars /\ WF_vars(Tick)

Ready == pc = "ready"
Idle == Ready /\ dragTarget = null
Dragging(a) == Ready /\ dragTarget = a
MoveSubs == stageOn["pointermove"]
Pinned(n) == fx[n] # null \/ fy[n] # null
Unpinned(n) == fx[n] = null /\ fy[n] = null

\* The fields of the nodes, links, simulation and controller, and the drawing.
Scene ==
    [x |-> x, y |-> y, vx |-> vx, vy |-> vy, fx |-> fx, fy |-> fy,
     linkCount |-> linkCount, links |-> links,
     alpha |-> alpha, alphaTarget |-> alphaTarget, dragTarget |-> dragTarget,
     lines |-> lines, circles |-> circles, order |-> order, renders |-> renders]

ModelFields ==
    {"x", "y", "vx", "vy", "fx", "fy", "linkCount", "links",
     "alpha", "alphaTarget", "dragTarget"}

PointerEvents == {"pointerdown", "pointermove"} \cup UpEvents

\* ---- C1 -----------------------------------------------------------------
\* C1: first-drag-wins.  While node a is being dragged, a pointer-down on
\* another node b is ignored: the drag target stays a, the pinned position
\* of b is unchanged and no further pointermove registration is added.
C1_FirstDragWins ==
    [][\A a \in Nodes, b \in Nodes, p \in Points :
         (a # b /\ Dragging(a) /\ PointerDown(b, p)) =>
            /\ dragTarget' = a
            /\ fx'[b] = fx[b] /\ fy'[b] = fy[b]
            /\ stageOn'["pointermove"] = stageOn["pointermove"]]_vars

\* ---- C2 -----------------------------------------------------------------
\* C2: whenever the controller is Idle, every node is unpinned and no
\* pointermove handler is subscribed.
C2_IdleMeansNoPins ==
    Idle => /\ \A n \in Nodes : Unpinned(n)
            /\ MoveSubs = 0

\* ---- C3 -----------------------------------------------------------------
\* C3: a pointer-down on a node while Idle reheats the simulation: after
\* it alpha is 1 or alphaTarget is positive, and the timer is scheduled.
C3_DragStartReheats ==
    [][\A n \in Nodes, p \in Points :
         (Idle /\ PointerDown(n, p)) =>
            /\ running'
            /\ (alpha' = AlphaOne \/ alphaTarget' > 0)]_vars

\* ---- C4 -----------------------------------------------------------------
\* C4: a pointer-move while Dragging leaves alpha and alphaTarget as they
\* were.
C4_MoveDoesNotReheat ==
    [][\A p \in Points :
         (Ready /\ dragTarget # null /\ PointerMove(p)) =>
            /\ alpha' = alpha
            /\ alphaTarget' = alphaTarget]_vars

\* ---- C5 -----------------------------------------------------------------
\* C5: after a pointer-up or pointer-up-outside received while dragging
\* node a, a is unpinned, there is no drag target, onDragMove is
\* unsubscribed, a's opacity is 1 and alphaTarget is 0; after the
\* pointer-down on a and after a pointer-move of the drag, a is pinned.
C5_DragEndReleases ==
    /\ (last.ev \in UpEvents /\ last.was # null) =>
          /\ Unpinned(last.was)
          /\ dragTarget = null
          /\ MoveSubs = 0
          /\ opacity[last.was] = FullOpacity
          /\ alphaTarget = 0
    /\ (last.ev = "pointerdown" /\ last.was = null) =>
          (fx[last.hit] # null /\ fy[last.hit] # null /\ dragTarget = last.hit)
    /\ (last.ev = "pointermove" /\ last.was # null) =>
          (fx[last.was] # null /\ fy[last.was] # null /\ dragTarget = last.was)

\* A drag of a node has just been ended by a pointer-up.
C5_Witness ==
    /\ last.ev \in UpEvents
    /\ last.was # null
    /\ Unpinned(last.was)
    /\ dragTarget = null

\* ---- C6 -----------------------------------------------------------------
\* C6: after every tick, every node with a non-null pinned coordinate sits
\* exactly on it (x = fx, y = fy), whatever the forces of that tick did.
C6_PinnedStaysOnPin ==
    (Ready /\ last.ev = "tick") =>
        \A n \in Nodes : /\ fx[n] # null => x[n] = fx[n]
                         /\ fy[n] # null => y[n] = fy[n]

\* A tick has just run in which one node was pinned and another, free,
\* node was moved by the forces.
C6_Witness ==
    /\ Ready /\ last.ev = "tick"
    /\ \E n \in Nodes, m \in Nodes :
         /\ fx[n] # null /\ x[n] = fx[n]
         /\ fx[m] = null /\ vx[m] # 0

\* ---- C7 -----------------------------------------------------------------
\* C7: alpha stays within [0, 1], and the only step of a simulation that
\* raises its alpha is a reheat (onDragMove's alpha(1)); a tick never raises
\* it.  (A step that creates a simulation is not a step of the one before.)
C7_AlphaBounded ==
    /\ [](Ready => (0 <= alpha /\ alpha <= AlphaOne))
    /\ [][(Ready /\ sims' = sims /\ alpha' > alpha) =>
            (last'.ev = "pointermove" /\ last'.was # null /\ alpha' = AlphaOne)]_vars

\* A tick has decayed alpha during a drag, i.e. after a reheat was possible.
C7_Witness ==
    /\ Ready /\ last.ev = "tick"
    /\ last.was # null
    /\ 0 < alpha /\ alpha < AlphaOne

\* ---- C8 -----------------------------------------------------------------
\* C8: once the view has been initialized and then removed, the simulation
\* is stopped and no pointer handler remains subscribed.
C8_TeardownStops ==
    (Ready /\ ~mounted) =>
        /\ ~running
        /\ \A e \in StageEvents : stageOn[e] = 0
        /\ \A n \in Nodes : circleOn[n] = 0

\* ---- C9 -----------------------------------------------------------------
\* C9: the tick loop settles.  Unless reheats keep arriving, the timer is
\* eventually stopped, and it is stopped exactly when a tick has left
\* alpha below the threshold; a reheat schedules it again.
C9_TickLoopSettles ==
    /\ ([]<>(~(Ready /\ running))
          \/ []<>(Ready /\ last.ev = "pointermove" /\ last.was # null))
    /\ []((Ready /\ last.ev = "tick") => (running <=> ~(alpha < AlphaMin)))
    /\ []((Ready /\ last.ev = "pointermove" /\ last.was # null) =>
            (running /\ alpha = AlphaOne))

\* The loop has stopped itself: the last tick left alpha below the threshold.
C9_Witness ==
    /\ Ready /\ last.ev = "tick"
    /\ alpha < AlphaMin
    /\ ~running

\* ---- C10 ----------------------------------------------------------------
\* C10: no constructed link is a self-link, and both ends of every link
\* are nodes of the collection handed to the simulation.
C10_NoSelfLinks ==
    Ready => \A i \in 1 .. Len(links) :
                /\ links[i][1] # links[i][2]
                /\ links[i][1] \in DOMAIN x
                /\ links[i][2] \in DOMAIN x

\* A graph was built in which a drawn self-link was dropped and a proper
\* link kept.
C10_Witness ==
    /\ Ready
    /\ Len(links) > 0
    /\ Len(links) < NumLinks

\* ---- C11 ----------------------------------------------------------------
\* C11: a tick runs as one step and is followed by exactly one render.
\* After a tick updatePositions has run exactly once and shows the
\* positions that tick integrated; the tick computes from the alpha and the
\* pins the handlers left; no pointer handler moves a node or redraws.
C11_TickThenOneRender ==
    /\ []((Ready /\ last.ev = "tick") =>
            /\ renders = 1
            /\ lines = DrawLines(links, x, y)
            /\ circles = DrawCircles(x, y, linkCount))
    /\ [][(Ready /\ last'.ev = "tick") =>
            /\ alpha' = AlphaStep(alpha, alphaTarget)
            /\ \A n \in Nodes :
                 /\ fx[n] # null => (x'[n] = fx[n] /\ vx'[n] = 0)
                 /\ fy[n] # null => (y'[n] = fy[n] /\ vy'[n] = 0)]_vars
    /\ [][(Ready /\ last'.ev \in PointerEvents) =>
            UNCHANGED <<x, y, vx, vy, drawVars>>]_vars

\* A tick has run during a drag, after a reheat: it shows the dragged node
\* on the pin and has decayed the alpha of the reheat once.
C11_Witness ==
    /\ Ready /\ last.ev = "tick"
    /\ renders = 1
    /\ last.was # null
    /\ x[last.was] = fx[last.was]
    /\ circles[last.was][1] = fx[last.was]
    /\ alpha = AlphaStep(AlphaOne, 0)

\* ---- C12 ----------------------------------------------------------------
\* C12: rendering is a pure projection.  One execution of updatePositions
\* leaves x, y, vx, vy, fx, fy, linkCount, the links, alpha, alphaTarget
\* and the drag target as they are.
C12_RenderIsProjection ==
    Ready => \E r \in {UpdatePositions(Scene)} :
                \A f \in ModelFields : r[f] = Scene[f]

\* A tick has rendered a node that the forces moved.
C12_Witness ==
    /\ Ready /\ last.ev = "tick"
    /\ renders = 1
    /\ \E n \in Nodes : vx[n] # 0 /\ circles[n][1] = x[n]

\* ---- C13 ----------------------------------------------------------------
\* C13: unpinning restores free movement.  In the tick that follows the
\* end of a drag of node a, a's position is the centred position plus its
\* velocity, not the former pin.
C13_UnpinnedMovesFreely ==
    [][(Ready /\ last.ev \in UpEvents /\ last.was # null /\ last'.ev = "tick") =>
         /\ x'[last.was] = Center(x, Width \div 2)[last.was] + vx'[last.was]
         /\ y'[last.was] = Center(y, Height \div 2)[last.was] + vy'[last.was]]_vars

\* A drag has just ended with the timer scheduled, and the next tick can
\* move the released node.
C13_Witness ==
    /\ Ready /\ last.ev \in UpEvents /\ last.was # null
    /\ Unpinned(last.was)
    /\ running
    /\ ENABLED (Tick /\ x'[last.was] # x[last.was])

\* ---- C14 ----------------------------------------------------------------
\* C14: in every draw, the initial one and every redraw of a tick, all
\* link segments are drawn before any node circle.
C14_LinksBeforeCircles ==
    Ready => \A i \in DOMAIN order, j \in DOMAIN order :
                (order[i] = "line" /\ order[j] = "circle") => i < j

\* A tick has redrawn a graph that has links and nodes.
C14_Witness ==
    /\ Ready /\ last.ev = "tick"
    /\ \E i \in DOMAIN order : order[i] = "line"
    /\ \E j \in DOMAIN order : order[j] = "circle"

\* ---- C15 ----------------------------------------------------------------
\* C15: when the surface fails to initialize (app.init rejects, or the app
\* has no view) and no other invocation is in flight or has got through,
\* the error reaches the caller (the promise of initializePixi is
\* rejected), no simulation exists, and nothing has ticked or been drawn.
C15_InitFailurePropagates ==
    (last.ev = "initfail" /\ awaiting = 0 /\ sims = 0) =>
        /\ pc = "rejected"
        /\ ~running /\ alpha = null
        /\ renders = 0 /\ lines = <<>> /\ circles = <<>>

\* ---- C16 ----------------------------------------------------------------
\* C16: after every pointer-down, and after every pointer-move of a drag,
\* the pinned position of the node being dragged is the position carried
\* by that event, wherever on the surface it is.
C16_PinFollowsPointer ==
    [][\A p \in Points :
         ((\E n \in Nodes : PointerDown(n, p)) \/ (dragTarget # null /\ PointerMove(p))) =>
            /\ dragTarget' # null
            /\ fx'[dragTarget'] = p[1]
            /\ fy'[dragTarget'] = p[2]]_vars

\* A pointer-move of a drag has put the pin away from where the node's
\* circle is drawn.
C16_Witness ==
    /\ Ready /\ last.ev = "pointermove" /\ last.was # null
    /\ dragTarget = last.was
    /\ fx[dragTarget] # circles[dragTarget][1]

\* ---- C17 ----------------------------------------------------------------
\* C17: every draw emits one line per link, from the current position of
\* its source to that of its target, and one circle per node at its current
\* position; with no links it emits no line.
C17_FrameMatchesGraph ==
    Ready =>
        /\ Len(lines) = Len(links)
        /\ \A i \in 1 .. Len(links) :
             lines[i] = <<x[links[i][1]], y[links[i][1]], x[links[i][2]], y[links[i][2]]>>
        /\ DOMAIN circles = Nodes
        /\ \A n \in Nodes : circles[n][1] = x[n] /\ circles[n][2] = y[n]
        /\ Len(order) = Len(links) + NumNodes
        /\ Cardinality({i \in DOMAIN order : order[i] = "line"}) = Len(links)
        /\ Cardinality({i \in DOMAIN order : order[i] = "circle"}) = NumNodes

\* A tick has redrawn a link whose two ends are at different positions.
C17_Witness ==
    /\ Ready /\ last.ev = "tick"
    /\ \E i \in 1 .. Len(lines) : lines[i][1] # lines[i][3]

\* ---- C18 ----------------------------------------------------------------
\* C18: linkCount of a node is the number of link ends on it in the
\* constructed link set, the counts sum to twice the number of links, and
\* the drawn radius is 4 + 2 * linkCount, non-decreasing in the count.
C18_LinkCountIsDegree ==
    Ready =>
        /\ \A n \in Nodes :
             linkCount[n] = Cardinality({i \in 1 .. Len(links) : links[i][1] = n})
                            + Cardinality({i \in 1 .. Len(links) : links[i][2] = n})
        /\ SumOver(linkCount, Nodes) = 2 * Len(links)
        /\ \A n \in Nodes : circles[n][3] = 4 + 2 * linkCount[n]
        /\ \A n \in Nodes, m \in Nodes :
             linkCount[n] <= linkCount[m] => circles[n][3] <= circles[m][3]

\* A graph was built in which every drawn link was kept and counted.
C18_Witness ==
    /\ Ready
    /\ Len(links) = NumLinks
    /\ \E n \in Nodes : linkCount[n] = NumLinks /\ circles[n][3] = 4 + 2 * NumLinks

\* ---- C19 ----------------------------------------------------------------
\* C19: a pointer-up, pointer-up-outside or pointer-move received while
\* Idle changes no pin, neither alpha nor alphaTarget, not whether the
\* timer is scheduled, and no subscription.
C19_IdleEventsAreNoOps ==
    [][(Idle /\ last'.ev \in UpEvents \cup {"pointermove"}) =>
         UNCHANGED <<fx, fy, alpha, alphaTarget, running, stageOn, circleOn>>]_vars

\* A pointer-up or pointer-move arrived while Idle with the timer stopped,
\* and the timer is still stopped.
C19_Witness ==
    /\ Ready
    /\ last.ev \in UpEvents \cup {"pointermove"}
    /\ last.was = null
    /\ ~running

\* ---- C20 ----------------------------------------------------------------
\* C20: whatever the number and interleaving of the invocations of
\* initializePixi, at most one of them gets past the guard on appRef at a
\* time, and at most one canvas and one simulation are ever created.
C20_OneSurfaceOneSimulation ==
    /\ awaiting <= 1
    /\ sims <= 1

====
